---- MODULE Spec2Model ----
(***************************************************************************)
(* Model of the Xylon logiCLK programmable clock generator driver          *)
(* (drivers/clk/clk-logiclk.c): the device-tree load, the three clk_ops    *)
(* handlers (recalc_rate, round_rate, set_rate), the parameter search, the *)
(* register packer and the hardware configuration loop.                    *)
(*                                                                         *)
(* Frequencies are in Hz, as in the driver.  The inputs are chosen so that *)
(* every value the driver stores stays below 2^31; products that the       *)
(* driver forms in 64 bits are computed without forming the product.       *)
(*                                                                         *)
(* The clock framework may call the three handlers on any output in any    *)
(* order once probe has registered the clocks; a call runs to completion   *)
(* before the next one starts, except that set_rate's hardware             *)
(* configuration is stepped register by register and read by read.  Probe  *)
(* leaves the clocks registered when its own parameter calculation fails.  *)
(***************************************************************************)
EXTENDS Integers, Sequences, FiniteSets, TLC

(* ------------------------- program constants --------------------------- *)
LOGICLK_MANUAL_REGS == 21
LOGICLK_PLL_LOCK == 1
LOGICLK_PLL_CONFIG == 1
LOGICLK_PLL_CONFIG_SW == 2
MMCM_INPUT_FREQ_MIN == 10000000
MMCM_INPUT_FREQ_MAX == 800000000
MMCM_OUTPUT_FREQ_MIN == 4690000
MMCM_OUTPUT_FREQ_MAX == 800000000
MMCM_VCO_FREQ_MIN == 600000000
MMCM_VCO_FREQ_MAX == 1600000000
MMCM_PHASE_MIN == -360000
MMCM_PHASE_MAX == 360000
MMCM_CLKOUT_DIVIDE_MIN == 1
MMCM_CLKOUT_DIVIDE_MAX == 128
MMCM_CLKOUT_DUTY_MIN == 100
MMCM_CLKOUT_DUTY_MAX == 99900
MMCM_DIVCLK_DIVIDE_MIN == 1
MMCM_DIVCLK_DIVIDE_MAX == 56
MMCM_FBOUT_MULTIPLY_MIN == 2
MMCM_FBOUT_MULTIPLY_MAX == 64
LOGICLK_FRACTION_PRECISION == 10
LOGICLK_OUTPUTS == 6
PLL_LOCK_TIME_INTERVALS == 50
EINVAL == 22
EIO == 5

(* (u64)-1, the initial value of freq_err in both searches; every error    *)
(* the searches compute is below it.                                       *)
U64_MAX == -1


(* --------------------------- fixed-point codec ------------------------- *)
RECURSIVE Pow2(_)
Pow2(n) == IF n = 0 THEN 1 ELSE 2 * Pow2(n - 1)

(* Saturated stand-in for a 64-bit quotient above the 32-bit integers of   *)
(* this model; it is only ever compared with MMCM_VCO_FREQ_MAX.            *)
FREQ_SAT == Pow2(30) + (Pow2(30) - 1)

abs64(x) == IF x < 0 THEN 0 - x ELSE x

(* (clk_freq * mult) / div in 64 bits: clk_freq = q*div + r gives          *)
(* q*mult + (r*mult)/div.                                                  *)
div_u64_mul(clk_freq, mult, div) ==
  LET q == clk_freq \div div
      r == clk_freq % div
  IN  IF mult > 0 /\ q > (FREQ_SAT \div mult) - 64
        THEN FREQ_SAT
        ELSE q * mult + ((r * mult) \div div)

logiclk_get_bits(input, msb, lsb) ==
  (input \div Pow2(lsb)) % Pow2(msb - lsb + 1)

(* logiclk_get_bits on a 40-bit table entry kept as <<bits 39:20, bits 19:0>> *)
logiclk_get_bits_u64(input, msb, lsb) ==
  IF lsb >= 20 THEN logiclk_get_bits(input[1], msb - 20, lsb - 20)
               ELSE logiclk_get_bits(input[2], msb, lsb)

round_fraction_add(decimal, prec) ==
  IF (decimal \div prec) % 2 = 1 THEN decimal + prec ELSE decimal

logiclk_round_fraction(decimal, precision) ==
  round_fraction_add(decimal, Pow2(LOGICLK_FRACTION_PRECISION - precision - 1))

(* --------------------------- duty/phase encoder ------------------------ *)
(* the return expression with high_time shifted by 5 instead of 6 *)
pll_div_pack_shift5(low_time, high_time, no_count, edge) ==
  (low_time % 64) + (high_time % 64) * 32 + (no_count % 2) * 4096 +
  (edge % 2) * 8192

(* the return expression of logiclk_pll_div *)
pll_div_pack(low_time, high_time, no_count, edge) ==
  (low_time % 64) + (high_time % 64) * 64 + (no_count % 2) * 4096 +
  (edge % 2) * 8192

(* if (high_time == divide) ..., then low_time, no_count and the return *)
pll_div_clamp_divide(divide, edge, high_time) ==
  IF high_time = divide
    THEN pll_div_pack(divide - (divide - 1), divide - 1, 0, 1)
    ELSE pll_div_pack(divide - high_time, high_time, 0, edge)

(* if (high_time == 0) ... *)
pll_div_clamp_zero(divide, edge, high_time) ==
  IF high_time = 0
    THEN pll_div_clamp_divide(divide, 0, 1)
    ELSE pll_div_clamp_divide(divide, edge, high_time)

(* edge and high_time taken from temp *)
pll_div_split(divide, temp) ==
  pll_div_clamp_zero(divide,
    logiclk_get_bits(temp, LOGICLK_FRACTION_PRECISION - 1,
                     LOGICLK_FRACTION_PRECISION - 1),
    logiclk_get_bits(temp, LOGICLK_FRACTION_PRECISION + 6,
                     LOGICLK_FRACTION_PRECISION))

pll_div_duty_fix(duty) == (duty * Pow2(LOGICLK_FRACTION_PRECISION)) \div 100000

logiclk_pll_div(divide, duty) ==
  IF divide = 1
    THEN pll_div_pack(1, 1, 1, 0)
    ELSE pll_div_split(divide,
           logiclk_round_fraction(pll_div_duty_fix(duty) * divide, 1))

(* delay_time and phase_mux taken from temp, and the return expression *)
pll_phase_pack(temp) ==
  (logiclk_get_bits(temp, LOGICLK_FRACTION_PRECISION + 5,
                    LOGICLK_FRACTION_PRECISION) % 64) +
  (logiclk_get_bits(temp, LOGICLK_FRACTION_PRECISION - 1,
                    LOGICLK_FRACTION_PRECISION - 3) % 8) * 64

pll_phase_fixed(phase) ==
  IF phase < 0
    THEN ((phase + MMCM_PHASE_MAX) * Pow2(LOGICLK_FRACTION_PRECISION)) \div 1000
    ELSE (phase * Pow2(LOGICLK_FRACTION_PRECISION)) \div 1000

logiclk_pll_phase(divide, phase) ==
  pll_phase_pack(logiclk_round_fraction(
    (pll_phase_fixed(phase) * divide) \div (MMCM_PHASE_MAX \div 1000), 3))

(* the return expression of logiclk_pll_count *)
pll_count_pack(pll_div, pll_phase) ==
  logiclk_get_bits(pll_div, 11, 0) +
  logiclk_get_bits(pll_phase, 8, 6) * Pow2(13) +
  logiclk_get_bits(pll_phase, 5, 0) * Pow2(16) +
  logiclk_get_bits(pll_div, 13, 12) * Pow2(22) +
  logiclk_get_bits(pll_phase, 10, 9) * Pow2(24)

logiclk_pll_count(divide, duty, phase) ==
  pll_count_pack(logiclk_pll_div(divide, duty), logiclk_pll_phase(divide, phase))

(* ------------------------ characterization tables ---------------------- *)
lut_high ==
  << 380, 1020, 1012, 996, 1016, 964, 964, 984,
     1000, 1000, 1000, 944, 1008, 1008, 1008, 1008,
     1008, 1008, 1008, 1008, 944, 944, 944, 1000,
     880, 776, 880, 880, 1000, 1000, 1000, 456,
     816, 816, 936, 392, 392, 392, 496, 392,
     272, 272, 272, 272, 272, 272, 224, 224,
     224, 224, 224, 224, 224, 224, 224, 224,
     224, 224, 224, 224, 224, 224, 224, 224 >>

lut_low ==
  << 95, 87, 123, 91, 107, 115, 115, 115,
     115, 75, 75, 75, 179, 83, 83, 83,
     83, 83, 83, 83, 83, 83, 83, 99,
     99, 99, 99, 99, 99, 99, 99, 99,
     99, 99, 99, 99, 99, 147, 147, 147,
     147, 147, 147, 147, 147, 147, 147, 163,
     163, 163, 163, 163, 163, 163, 163, 163,
     163, 163, 163, 163, 163, 163, 163, 163 >>

lut_lock ==
  << <<203752, 1025025>>, <<203752, 1025025>>, <<271336, 1025025>>, <<372712, 1025025>>,
     <<474088, 1025025>>, <<575464, 1025025>>, <<643048, 1025025>>, <<744424, 1025025>>,
     <<845800, 1025025>>, <<947176, 1025025>>, <<1048452, 1025025>>, <<1048377, 1025025>>,
     <<1048302, 1025025>>, <<1048252, 1025025>>, <<1048202, 1025025>>, <<1048177, 1025025>>,
     <<1048127, 1025025>>, <<1048102, 1025025>>, <<1048077, 1025025>>, <<1048052, 1025025>>,
     <<1048027, 1025025>>, <<1048002, 1025025>>, <<1047977, 1025025>>, <<1047952, 1025025>>,
     <<1047952, 1025025>>, <<1047927, 1025025>>, <<1047902, 1025025>>, <<1047902, 1025025>>,
     <<1047877, 1025025>>, <<1047877, 1025025>>, <<1047852, 1025025>>, <<1047852, 1025025>>,
     <<1047852, 1025025>>, <<1047827, 1025025>>, <<1047827, 1025025>>, <<1047827, 1025025>>,
     <<1047802, 1025025>>, <<1047802, 1025025>>, <<1047802, 1025025>>, <<1047802, 1025025>>,
     <<1047802, 1025025>>, <<1047802, 1025025>>, <<1047802, 1025025>>, <<1047802, 1025025>>,
     <<1047802, 1025025>>, <<1047802, 1025025>>, <<1047802, 1025025>>, <<1047802, 1025025>>,
     <<1047802, 1025025>>, <<1047802, 1025025>>, <<1047802, 1025025>>, <<1047802, 1025025>>,
     <<1047802, 1025025>>, <<1047802, 1025025>>, <<1047802, 1025025>>, <<1047802, 1025025>>,
     <<1047802, 1025025>>, <<1047802, 1025025>>, <<1047802, 1025025>>, <<1047802, 1025025>>,
     <<1047802, 1025025>>, <<1047802, 1025025>>, <<1047802, 1025025>>, <<1047802, 1025025>> >>


(* C array element lut[idx] (0-based) of a 64-entry table *)
lut_at(lut, idx) == lut[idx + 1]

logiclk_pll_lut_filter(divide, bw_high) ==
  IF bw_high THEN lut_at(lut_high, divide - 1)
             ELSE lut_at(lut_low, divide - 1)

logiclk_pll_lut_lock(divide) == lut_at(lut_lock, divide - 1)

(* --------------------------- frequency searches ------------------------ *)
(* freq_err_new < freq_err, with freq_err possibly still (u64)-1 *)
err_less(freq_err_new, freq_err) ==
  freq_err = U64_MAX \/ freq_err_new < freq_err

(* The search state is <<clkfbout_mult, divclk_divide, freq_err, returned>>; *)
(* returned is TRUE once the exact match has made the function return 0.    *)
(* Each loop runs its iterations lo..hi in increasing order; the range is   *)
(* halved only to keep the evaluation depth logarithmic.                    *)
(* the update taken on an equal error too, so that the last best triple   *)
(* wins                                                                    *)
mult_div_update_on_tie(divclk_divide, clkfbout_mult, freq_err_new, st) ==
  IF err_less(freq_err_new, st[3]) \/ freq_err_new = st[3]
    THEN <<clkfbout_mult, divclk_divide, freq_err_new, freq_err_new = 0>>
    ELSE st

mult_div_update(divclk_divide, clkfbout_mult, freq_err_new, st) ==
  IF err_less(freq_err_new, st[3])
    THEN <<clkfbout_mult, divclk_divide, freq_err_new, freq_err_new = 0>>
    ELSE st

mult_div_body(vco, freq_out, divclk_divide, clkfbout_mult, clkout_divide, st) ==
  mult_div_update(divclk_divide, clkfbout_mult,
                  abs64((vco \div clkout_divide) - freq_out), st)

RECURSIVE mult_div_clkout_loop(_, _, _, _, _, _, _)
mult_div_clkout_loop(vco, freq_out, divclk_divide, clkfbout_mult, lo, hi, st) ==
  IF st[4] THEN st
  ELSE IF lo = hi
    THEN mult_div_body(vco, freq_out, divclk_divide, clkfbout_mult, lo, st)
    ELSE mult_div_clkout_loop(vco, freq_out, divclk_divide, clkfbout_mult,
           ((lo + hi) \div 2) + 1, hi,
           mult_div_clkout_loop(vco, freq_out, divclk_divide, clkfbout_mult,
                                lo, (lo + hi) \div 2, st))

(* the clkout_divide loop for one (divclk_divide, clkfbout_mult): every    *)
(* iteration continues when the VCO frequency is outside its window        *)
mult_div_vco(vco, freq_out, divclk_divide, clkfbout_mult, st) ==
  IF vco < MMCM_VCO_FREQ_MIN \/ vco > MMCM_VCO_FREQ_MAX
    THEN st
    ELSE mult_div_clkout_loop(vco, freq_out, divclk_divide, clkfbout_mult,
                              MMCM_CLKOUT_DIVIDE_MIN, MMCM_CLKOUT_DIVIDE_MAX, st)

RECURSIVE mult_div_mult_loop(_, _, _, _, _, _)
mult_div_mult_loop(clk_freq_input, freq_out, divclk_divide, lo, hi, st) ==
  IF st[4] THEN st
  ELSE IF lo = hi
    THEN mult_div_vco(div_u64_mul(clk_freq_input, lo, divclk_divide), freq_out,
                      divclk_divide, lo, st)
    ELSE mult_div_mult_loop(clk_freq_input, freq_out, divclk_divide,
           ((lo + hi) \div 2) + 1, hi,
           mult_div_mult_loop(clk_freq_input, freq_out, divclk_divide,
                              lo, (lo + hi) \div 2, st))

RECURSIVE mult_div_div_loop(_, _, _, _, _)
mult_div_div_loop(clk_freq_input, freq_out, lo, hi, st) ==
  IF st[4] THEN st
  ELSE IF lo = hi
    THEN mult_div_mult_loop(clk_freq_input, freq_out, lo,
                            MMCM_FBOUT_MULTIPLY_MIN, MMCM_FBOUT_MULTIPLY_MAX, st)
    ELSE mult_div_div_loop(clk_freq_input, freq_out, ((lo + hi) \div 2) + 1, hi,
           mult_div_div_loop(clk_freq_input, freq_out, lo, (lo + hi) \div 2, st))

(* the end of logiclk_pll_input_mult_div: the input stage's multiplier and *)
(* divider on return, and the return value                                 *)
mult_div_return(st) ==
  [clkfbout_mult |-> st[1], divclk_divide |-> st[2],
   ret |-> IF st[4] THEN 0
           ELSE IF st[1] = 0 \/ st[2] = 0 THEN 0 - EINVAL ELSE 0]

logiclk_pll_input_mult_div(clk_freq_input, freq_out) ==
  mult_div_return(mult_div_div_loop(clk_freq_input, freq_out,
                    MMCM_DIVCLK_DIVIDE_MIN, MMCM_DIVCLK_DIVIDE_MAX,
                    <<0, 0, U64_MAX, FALSE>>))

(* The loop state is <<clkout_div, freq_err, returned>>. *)
output_div_update(clkout_divide, freq_err_new, st) ==
  IF err_less(freq_err_new, st[2])
    THEN <<clkout_divide, freq_err_new, freq_err_new = 0>>
    ELSE st

output_div_body(freq_mult_div, freq_out, clkout_divide, st) ==
  output_div_update(clkout_divide,
                    abs64((freq_mult_div \div clkout_divide) - freq_out), st)

RECURSIVE output_div_loop(_, _, _, _, _)
output_div_loop(freq_mult_div, freq_out, lo, hi, st) ==
  IF st[3] THEN st
  ELSE IF lo = hi
    THEN output_div_body(freq_mult_div, freq_out, lo, st)
    ELSE output_div_loop(freq_mult_div, freq_out, ((lo + hi) \div 2) + 1, hi,
           output_div_loop(freq_mult_div, freq_out, lo, (lo + hi) \div 2, st))

(* in: the input stage; freq_out: output->clkout_freq *)
logiclk_pll_output_div(in, freq_out) ==
  output_div_loop(div_u64_mul(in.clk_freq, in.clkfbout_mult, in.divclk_divide),
                  freq_out, MMCM_CLKOUT_DIVIDE_MIN, MMCM_CLKOUT_DIVIDE_MAX,
                  <<0, U64_MAX, FALSE>>)[1]

(* ----------------------------- register packer ------------------------ *)
(* in: struct logiclk_input, out: one struct logiclk_output, man: man_regs *)
(* the register pair stored at LOGICLK_PLL_REG_OFF + id, without the * 2 *)
man_reg_params_id_store_stride(out, man, id, clkout_divide, clkout, clk_freq_mult_div) ==
  [output |-> [out EXCEPT !.clkout_divide = clkout_divide,
                          !.clkout_freq = clk_freq_mult_div \div clkout_divide],
   man_regs |-> [man EXCEPT ![1 + id] = logiclk_get_bits(clkout, 15, 0),
                            ![2 + id] = logiclk_get_bits(clkout, 31, 16)]]

man_reg_params_id_store(out, man, id, clkout_divide, clkout, clk_freq_mult_div) ==
  [output |-> [out EXCEPT !.clkout_divide = clkout_divide,
                          !.clkout_freq = clk_freq_mult_div \div clkout_divide],
   man_regs |-> [man EXCEPT ![1 + (id * 2)] = logiclk_get_bits(clkout, 15, 0),
                            ![2 + (id * 2)] = logiclk_get_bits(clkout, 31, 16)]]

(* the count word packed from the divider the output had before the       *)
(* search                                                                  *)
man_reg_params_id_count_old_divide(out, man, id, clkout_divide, clk_freq_mult_div) ==
  man_reg_params_id_store(out, man, id, clkout_divide,
    logiclk_pll_count(out.clkout_divide, out.clkout_duty, out.clkout_phase),
    clk_freq_mult_div)

man_reg_params_id_count(out, man, id, clkout_divide, clk_freq_mult_div) ==
  man_reg_params_id_store(out, man, id, clkout_divide,
    logiclk_pll_count(clkout_divide, out.clkout_duty, out.clkout_phase),
    clk_freq_mult_div)

logiclk_man_reg_params_id(in, out, man, id) ==
  man_reg_params_id_count(out, man, id,
    logiclk_pll_output_div(in, out.clkout_freq),
    div_u64_mul(in.clk_freq, in.clkfbout_mult, in.divclk_divide))

man_reg_params_store(man, clkfbout, divclk, filter, lock) ==
  [man EXCEPT
     ![0] = 65535,
     ![13] = logiclk_get_bits(divclk, 23, 22) * Pow2(12) +
             logiclk_get_bits(divclk, 11, 0),
     ![14] = logiclk_get_bits(clkfbout, 15, 0),
     ![15] = logiclk_get_bits(clkfbout, 31, 16),
     ![16] = logiclk_get_bits_u64(lock, 29, 20),
     ![17] = logiclk_get_bits_u64(lock, 34, 30) * Pow2(10) +
             logiclk_get_bits_u64(lock, 9, 0),
     ![18] = logiclk_get_bits_u64(lock, 39, 35) * Pow2(10) +
             logiclk_get_bits_u64(lock, 19, 10),
     ![19] = logiclk_get_bits(filter, 6, 6) * Pow2(8) +
             logiclk_get_bits(filter, 8, 7) * Pow2(11) +
             logiclk_get_bits(filter, 9, 9) * Pow2(15),
     ![20] = logiclk_get_bits(filter, 0, 0) * Pow2(4) +
             logiclk_get_bits(filter, 2, 1) * Pow2(7) +
             logiclk_get_bits(filter, 4, 3) * Pow2(11) +
             logiclk_get_bits(filter, 5, 5) * Pow2(15)]

logiclk_man_reg_params(in, out, man) ==
  man_reg_params_store(man,
    logiclk_pll_count(in.clkfbout_mult, out.clkout_duty, in.clkfbout_phase),
    logiclk_pll_count(in.divclk_divide, out.clkout_duty, out.clkout_phase),
    logiclk_pll_lut_filter(in.clkfbout_mult - 1, in.bw_high),
    logiclk_pll_lut_lock(in.clkfbout_mult - 1))

(* ------------------------------ model bounds --------------------------- *)
(* number of clk_ops calls made after probe *)
MaxOps == 2

(* the channels the clock framework calls into *)
OpIds == {0, 1}

(* rates passed to round_rate / set_rate: one below MMCM_OUTPUT_FREQ_MIN,   *)
(* one above MMCM_OUTPUT_FREQ_MAX, the others valid                        *)
Rates == {4689999, 100000000, 123456789, 800000001}

(* rates passed to set_rate *)
CommitRates == {4689999, 100000000}

(* duty cycles the duty encoder is applied to on its own *)
EncDuties == {100, 390, 1000, 5000, 10000, 25000, 33333, 49999, 50000, 50001,
              66667, 75000, 90000, 99000, 99609, 99804, 99900}

(* ------------------------------ device trees --------------------------- *)
ChanIds == 0 .. (LOGICLK_OUTPUTS - 1)

DtOut(frequency, divide, duty, phase) ==
  [frequency |-> frequency, divide |-> divide, duty |-> duty, phase |-> phase]

BaseDT ==
  [outputs |-> 6, input_frequency |-> 100000000, input_divide |-> 1,
   input_multiply |-> 8, input_phase |-> 0, bandwidth_high |-> FALSE,
   precise |-> 0,
   out |-> [i \in ChanIds |-> DtOut(0, 4, 50000, 0)]]

(* device trees every field of which is within the documented bounds *)
ValidDTs ==
  { BaseDT,
    [BaseDT EXCEPT !.input_frequency = 10000000, !.input_multiply = 64,
                   !.out[1] = DtOut(7000000, 10, 25000, 90000)],
    [BaseDT EXCEPT !.input_frequency = 800000000, !.input_multiply = 2,
                   !.bandwidth_high = TRUE, !.input_phase = 45000,
                   !.out[0] = DtOut(100000000, 16, 50000, 0),
                   !.out[1] = DtOut(0, 128, 99900, -90000)],
    [BaseDT EXCEPT !.input_multiply = 2, !.input_divide = 56,
                   !.out[1] = DtOut(0, 1, 100, 360000)] }

(* device trees with one field outside its bounds *)
InvalidDTs ==
  { [BaseDT EXCEPT !.outputs = 5],
    [BaseDT EXCEPT !.input_frequency = 9999999],
    [BaseDT EXCEPT !.input_frequency = 800000001],
    [BaseDT EXCEPT !.input_divide = 0],
    [BaseDT EXCEPT !.input_divide = 57],
    [BaseDT EXCEPT !.input_multiply = 1],
    [BaseDT EXCEPT !.input_multiply = 65],
    [BaseDT EXCEPT !.out[1] = DtOut(0, 129, 50000, 0)],
    [BaseDT EXCEPT !.out[1] = DtOut(0, 4, 99, 0)],
    [BaseDT EXCEPT !.out[1] = DtOut(0, 4, 99901, 0)],
    [BaseDT EXCEPT !.out[1] = DtOut(0, 4, 50000, 360001)] }

DeviceTrees == ValidDTs \cup InvalidDTs

(* ----------------------------- configuration load ---------------------- *)
(* a u32 compared with a positive long: a negative s32 is a large u32 *)
u32_gt(v, max) == v < 0 \/ v > max

ZeroInput ==
  [clk_freq |-> 0, clkfbout_mult |-> 0, clkfbout_phase |-> 0,
   divclk_divide |-> 0, bw_high |-> FALSE]

ZeroOutput ==
  [clkout_freq |-> 0, clkout_divide |-> 0, clkout_duty |-> 0,
   clkout_phase |-> 0, id |-> 0, precise |-> FALSE]

ZeroRegs == [i \in 0 .. (LOGICLK_MANUAL_REGS - 1) |-> 0]

(* one iteration of the per-output loop: a failed range check jumps to     *)
(* clk_node_err, which only releases the node and continues the loop, so   *)
(* the remaining properties of that output are left unread (zero)          *)
of_config_output(tree, i) ==
  LET o == tree.out[i]
      freq == IF o.frequency # 0 /\ (o.frequency < MMCM_OUTPUT_FREQ_MIN \/
                                      o.frequency > MMCM_OUTPUT_FREQ_MAX)
                THEN 0 ELSE o.frequency
      divide_ok == ~(o.divide < MMCM_CLKOUT_DIVIDE_MIN \/
                     o.divide > MMCM_CLKOUT_DIVIDE_MAX)
      duty_ok == ~(o.duty < MMCM_CLKOUT_DUTY_MIN \/ o.duty > MMCM_CLKOUT_DUTY_MAX)
  IN  [clkout_freq |-> freq,
       clkout_divide |-> o.divide,
       clkout_duty |-> IF divide_ok THEN o.duty ELSE 0,
       clkout_phase |-> IF divide_ok /\ duty_ok THEN o.phase ELSE 0,
       id |-> i,
       precise |-> (tree.precise = i)]

logiclk_get_of_config(tree) ==
  LET fail == [err |-> 0 - EINVAL, input |-> ZeroInput,
               output |-> [i \in ChanIds |-> ZeroOutput], set_freq |-> FALSE]
  IN  IF tree.outputs # LOGICLK_OUTPUTS THEN fail
      ELSE IF tree.input_frequency < MMCM_INPUT_FREQ_MIN \/
              tree.input_frequency > MMCM_INPUT_FREQ_MAX THEN fail
      ELSE IF tree.input_divide < MMCM_DIVCLK_DIVIDE_MIN \/
              tree.input_divide > MMCM_DIVCLK_DIVIDE_MAX THEN fail
      ELSE IF tree.input_multiply < MMCM_FBOUT_MULTIPLY_MIN \/
              tree.input_multiply > MMCM_FBOUT_MULTIPLY_MAX THEN fail
      ELSE IF tree.input_phase < MMCM_PHASE_MIN \/
              u32_gt(tree.input_phase, MMCM_PHASE_MAX) THEN fail
      ELSE [err |-> 0,
            input |-> [clk_freq |-> tree.input_frequency,
                       clkfbout_mult |-> tree.input_multiply,
                       clkfbout_phase |-> tree.input_phase,
                       divclk_divide |-> tree.input_divide,
                       bw_high |-> tree.bandwidth_high],
            output |-> [i \in ChanIds |-> of_config_output(tree, i)],
            set_freq |-> \E i \in ChanIds : of_config_output(tree, i).clkout_freq # 0]

(* --------------------------- parameter calculation --------------------- *)
(* the full search on the (reference, target) pairs the model can pass to  *)
(* it, evaluated once                                                      *)
SearchInputs ==
  { <<tree.input_frequency, f>> :
      tree \in {x \in DeviceTrees : logiclk_get_of_config(x).err = 0},
      f \in {r \in Rates : r >= MMCM_OUTPUT_FREQ_MIN /\ r <= MMCM_OUTPUT_FREQ_MAX} }

mult_div_table ==
  [p \in SearchInputs |-> logiclk_pll_input_mult_div(p[1], p[2])]

pll_input_mult_div(clk_freq, freq_out) ==
  IF <<clk_freq, freq_out>> \in SearchInputs
    THEN mult_div_table[<<clk_freq, freq_out>>]
    ELSE logiclk_pll_input_mult_div(clk_freq, freq_out)

(* one iteration of the for loop of logiclk_calc_params; st is             *)
(* [output |-> all channels, man_regs |-> image], r the result of          *)
(* logiclk_man_reg_params_id on output[i]                                  *)
calc_params_store(st, i, r) ==
  [output |-> [st.output EXCEPT ![i] = r.output], man_regs |-> r.man_regs]

RECURSIVE calc_params_loop(_, _, _)
calc_params_loop(in, i, st) ==
  IF i >= LOGICLK_OUTPUTS
    THEN st
    ELSE calc_params_loop(in, i + 1,
           calc_params_store(st, i,
             logiclk_man_reg_params_id(in, st.output[i], st.man_regs,
                                       st.output[i].id)))

calc_params_result(ret, in, st) ==
  [ret |-> ret, input |-> in, output |-> st.output, man_regs |-> st.man_regs]

(* the precise branch without the loop over the outputs *)
calc_params_precise_noloop(in1, outs, man, id) ==
  calc_params_result(0, in1,
    [output |-> outs, man_regs |-> logiclk_man_reg_params(in1, outs[id], man)])

(* the precise branch once the search has returned 0 *)
calc_params_precise(in1, outs, man, id) ==
  calc_params_result(0, in1,
    calc_params_loop(in1, 0,
      [output |-> outs, man_regs |-> logiclk_man_reg_params(in1, outs[id], man)]))

(* the precise branch after the search; s is its result *)
calc_params_searched(in, outs, man, id, s) ==
  IF s.ret # 0
    THEN [ret |-> s.ret,
          input |-> [in EXCEPT !.clkfbout_mult = s.clkfbout_mult,
                               !.divclk_divide = s.divclk_divide],
          output |-> outs, man_regs |-> man]
    ELSE calc_params_precise([in EXCEPT !.clkfbout_mult = s.clkfbout_mult,
                                        !.divclk_divide = s.divclk_divide],
                             outs, man, id)

(* in: input stage, outs: all six outputs, man: man_regs, id: the output   *)
(* the call is made on                                                     *)
logiclk_calc_params(in, outs, man, id) ==
  IF outs[id].clkout_freq < MMCM_OUTPUT_FREQ_MIN \/
     outs[id].clkout_freq > MMCM_OUTPUT_FREQ_MAX
    THEN [ret |-> 0 - EINVAL, input |-> in, output |-> outs, man_regs |-> man]
  ELSE IF outs[id].precise
    THEN calc_params_searched(in, outs, man, id,
           pll_input_mult_div(in.clk_freq, outs[id].clkout_freq))
    ELSE calc_params_result(0, in,
           calc_params_store([output |-> outs, man_regs |-> man], id,
             logiclk_man_reg_params_id(in, outs[id], man, outs[id].id)))

(* --------------------------------- state ------------------------------- *)
VARIABLES
  dt,              \* the device tree node the driver is probed with
  pc,              \* "probe", "aborted", "idle", "hw_write", "hw_poll", "hw_ret"
  input,           \* data->input
  output,          \* data->output[0..5]
  output_stack,    \* data->output_stack
  man_regs,        \* data->man_regs[0..20]
  man_regs_stack,  \* data->man_regs_stack
  hw_regs,         \* the device's manual register bank
  hw_ctrl,         \* the control word last written to the PLL register
  hw,              \* logiclk_hw_config in progress: caller, i, cnt, reads, val, ...
  nops,            \* number of clk_ops calls made so far
  last,            \* the most recent clk_ops call: op, id, rate, calc, ret
  enc              \* one application of logiclk_pll_div: divide, duty, word

vars == <<dt, pc, input, output, output_stack, man_regs, man_regs_stack,
          hw_regs, hw_ctrl, hw, nops, last, enc>>

data_vars == <<input, output, output_stack, man_regs, man_regs_stack>>

HwIdle == [caller |-> "none", i |-> 0, cnt |-> 0, reads |-> 0, val |-> 0,
           cfg_written |-> FALSE, ret |-> 0, done |-> FALSE]

(* entry of logiclk_hw_config(output, LOGICLK_CONFIG_SW) *)
HwEnter(caller) == [caller |-> caller, i |-> 0, cnt |-> PLL_LOCK_TIME_INTERVALS,
                    reads |-> 0, val |-> 0, cfg_written |-> FALSE, ret |-> 0,
                    done |-> FALSE]

EncNone == [divide |-> 0, duty |-> 0, word |-> -1]

NoCall == [op |-> "none", id |-> 0, rate |-> 0, calc |-> "none", ret |-> 0]

Init ==
  /\ dt \in DeviceTrees
  /\ pc = "probe"
  /\ input = ZeroInput
  /\ output = [i \in ChanIds |-> ZeroOutput]
  /\ output_stack = ZeroOutput
  /\ man_regs = ZeroRegs
  /\ man_regs_stack = ZeroRegs
  /\ hw_regs = ZeroRegs
  /\ hw_ctrl = 0
  /\ hw = HwIdle
  /\ nops = 0
  /\ last = NoCall
  /\ enc = EncNone

(* the output flagged precise; prec_id stays 0 when none is *)
prec_id(outs) ==
  IF \E i \in ChanIds : outs[i].precise
    THEN CHOOSE i \in ChanIds : outs[i].precise /\
                                \A j \in ChanIds : outs[j].precise => j <= i
    ELSE 0

(* ------------------------------- logiclk_probe ------------------------- *)
(* r: the result of logiclk_calc_params on the precise output *)
ProbeSetFreq(r) ==
  /\ input' = r.input
  /\ output' = r.output
  /\ man_regs' = r.man_regs
  /\ IF r.ret # 0
       THEN pc' = "idle" /\ UNCHANGED hw
       ELSE pc' = "hw_write" /\ hw' = HwEnter("probe")

(* c: the result of logiclk_get_of_config *)
ProbeConfig(c) ==
  IF c.err # 0
    THEN /\ pc' = "aborted"
         /\ UNCHANGED <<input, output, man_regs, hw>>
    ELSE IF c.set_freq
      THEN ProbeSetFreq(logiclk_calc_params(c.input, c.output, ZeroRegs,
                                            prec_id(c.output)))
      ELSE /\ input' = c.input
           /\ output' = c.output
           /\ pc' = "idle"
           /\ UNCHANGED <<man_regs, hw>>

Probe ==
  /\ pc = "probe"
  /\ ProbeConfig(logiclk_get_of_config(dt))
  /\ UNCHANGED <<dt, enc, output_stack, man_regs_stack, hw_regs, hw_ctrl, nops, last>>

(* ----------------------------- logiclk_hw_config ----------------------- *)
(* one iteration of the for loop writing the manual registers *)
HwWrite ==
  /\ pc = "hw_write"
  /\ hw_regs' = [hw_regs EXCEPT ![hw.i] = man_regs[hw.i]]
  /\ hw' = [hw EXCEPT !.i = hw.i + 1]
  /\ pc' = IF hw.i + 1 < LOGICLK_MANUAL_REGS THEN "hw_write" ELSE "hw_poll"
  /\ UNCHANGED <<dt, enc, data_vars, hw_ctrl, nops, last>>

(* one iteration of the while loop; val is what the read of the PLL        *)
(* register returns                                                        *)
(* the iteration with the control word written before the lock bit is     *)
(* tested                                                                  *)
hw_poll_iter_write_first(h, val) ==
  IF val = LOGICLK_PLL_LOCK
    THEN [h EXCEPT !.reads = h.reads + 1, !.val = val, !.cfg_written = TRUE,
                   !.ret = 0, !.done = TRUE]
    ELSE IF h.cnt = 0
      THEN [h EXCEPT !.reads = h.reads + 1, !.val = val, !.cnt = h.cnt - 1,
                     !.cfg_written = TRUE, !.ret = 0 - EIO, !.done = TRUE]
      ELSE [h EXCEPT !.reads = h.reads + 1, !.val = val, !.cnt = h.cnt - 1,
                     !.cfg_written = TRUE]

hw_poll_iter(h, val) ==
  IF val = LOGICLK_PLL_LOCK
    THEN [h EXCEPT !.reads = h.reads + 1, !.val = val, !.cfg_written = TRUE,
                   !.ret = 0, !.done = TRUE]
    ELSE IF h.cnt = 0
      THEN [h EXCEPT !.reads = h.reads + 1, !.val = val, !.cnt = h.cnt - 1,
                     !.ret = 0 - EIO, !.done = TRUE]
      ELSE [h EXCEPT !.reads = h.reads + 1, !.val = val, !.cnt = h.cnt - 1]

HwPollStep(h) ==
  /\ hw' = h
  /\ hw_ctrl' = IF h.cfg_written
                  THEN LOGICLK_PLL_CONFIG + LOGICLK_PLL_CONFIG_SW
                  ELSE hw_ctrl
  /\ pc' = IF h.done THEN "hw_ret" ELSE "hw_poll"

HwPoll ==
  /\ pc = "hw_poll"
  /\ \E val \in {0, LOGICLK_PLL_LOCK} : HwPollStep(hw_poll_iter(hw, val))
  /\ UNCHANGED <<dt, enc, data_vars, hw_regs, nops, last>>

(* return of logiclk_hw_config to logiclk_set_rate, which returns its      *)
(* result, or to logiclk_probe, which ignores it                           *)
HwReturn ==
  /\ pc = "hw_ret"
  /\ pc' = "idle"
  /\ hw' = HwIdle
  /\ last' = IF hw.caller = "set_rate" THEN [last EXCEPT !.ret = hw.ret] ELSE last
  /\ UNCHANGED <<dt, enc, data_vars, hw_regs, hw_ctrl, nops>>

(* ---------------------------- logiclk_recalc_rate ---------------------- *)
recalc_rate_return(r) ==
  [ret |-> r.output.clkout_freq, output |-> r.output, man_regs |-> r.man_regs]

(* out1: the output after the if (output->clkout_freq == 0) block *)
recalc_rate_regs(in, out1, man) ==
  recalc_rate_return(
    logiclk_man_reg_params_id(in, out1, logiclk_man_reg_params(in, out1, man),
                              out1.id))

(* recalc_rate without the if (output->clkout_freq == 0) block *)
logiclk_recalc_rate_no_derive(in, out, man) == recalc_rate_regs(in, out, man)

logiclk_recalc_rate(in, out, man) ==
  recalc_rate_regs(in,
    IF out.clkout_freq = 0
      THEN [out EXCEPT !.clkout_freq =
              div_u64_mul(in.clk_freq, in.clkfbout_mult, in.divclk_divide)
                \div out.clkout_divide]
      ELSE out,
    man)

RecomputeStore(id, r) ==
  /\ output' = [output EXCEPT ![id] = r.output]
  /\ man_regs' = r.man_regs
  /\ last' = [op |-> "recalc_rate", id |-> id, rate |-> 0,
              calc |-> "none", ret |-> r.ret]

Recompute(id) ==
  /\ pc = "idle"
  /\ nops < MaxOps
  /\ RecomputeStore(id, logiclk_recalc_rate(input, output[id], man_regs))
  /\ nops' = nops + 1
  /\ UNCHANGED <<dt, enc, pc, input, output_stack, man_regs_stack, hw_regs, hw_ctrl, hw>>

(* ------------------------ logiclk_round_rate / set_rate ---------------- *)
(* logiclk_stack_params: PUSH copies the output and man_regs to the stack, *)
(* POP copies them back                                                    *)
stack_push(out, man) == [output_stack |-> out, man_regs_stack |-> man]

(* POP that leaves the output as the failed calculation left it *)
stack_pop_output_skipped(out, pushed) == out

stack_pop_output(out, pushed) == pushed.output_stack

stack_pop_regs(man, pushed) == pushed.man_regs_stack

(* r: the result of logiclk_calc_params after output->clkout_freq = rate;  *)
(* a failure pops the stack                                                *)
calc_rollback(id, pushed, r) ==
  [ret |-> r.ret,
   input |-> r.input,
   output |-> IF r.ret # 0
                THEN [r.output EXCEPT ![id] = stack_pop_output(r.output[id], pushed)]
                ELSE r.output,
   man_regs |-> IF r.ret # 0 THEN stack_pop_regs(r.man_regs, pushed)
                             ELSE r.man_regs,
   output_stack |-> pushed.output_stack,
   man_regs_stack |-> pushed.man_regs_stack]

calc_with_rollback(in, outs, man, id, rate) ==
  calc_rollback(id, stack_push(outs[id], man),
    logiclk_calc_params(in, [outs EXCEPT ![id].clkout_freq = rate], man, id))

StoreData(r) ==
  /\ input' = r.input
  /\ output' = r.output
  /\ man_regs' = r.man_regs
  /\ output_stack' = r.output_stack
  /\ man_regs_stack' = r.man_regs_stack

ProposeStore(id, rate, r) ==
  /\ StoreData(r)
  /\ last' = [op |-> "round_rate", id |-> id, rate |-> rate,
              calc |-> IF r.ret # 0 THEN "failed" ELSE "ok",
              ret |-> IF r.ret # 0 THEN 0 - EINVAL
                                   ELSE r.output[id].clkout_freq]

Propose(id, rate) ==
  /\ pc = "idle"
  /\ nops < MaxOps
  /\ ProposeStore(id, rate, calc_with_rollback(input, output, man_regs, id, rate))
  /\ nops' = nops + 1
  /\ UNCHANGED <<dt, enc, pc, hw_regs, hw_ctrl, hw>>

CommitStore(id, rate, r) ==
  /\ StoreData(r)
  /\ IF r.ret # 0
       THEN /\ pc' = "idle"
            /\ hw' = hw
            /\ last' = [op |-> "set_rate", id |-> id, rate |-> rate,
                        calc |-> "failed", ret |-> 0 - EINVAL]
       ELSE /\ pc' = "hw_write"
            /\ hw' = HwEnter("set_rate")
            /\ last' = [op |-> "set_rate", id |-> id, rate |-> rate,
                        calc |-> "ok", ret |-> 0]

Commit(id, rate) ==
  /\ pc = "idle"
  /\ nops < MaxOps
  /\ IF rate # output[id].clkout_freq
       THEN CommitStore(id, rate,
              calc_with_rollback(input, output, man_regs, id, rate))
       ELSE /\ pc' = "hw_write"
            /\ hw' = HwEnter("set_rate")
            /\ last' = [op |-> "set_rate", id |-> id, rate |-> rate,
                        calc |-> "skipped", ret |-> 0]
            /\ UNCHANGED data_vars
  /\ nops' = nops + 1
  /\ UNCHANGED <<dt, enc, hw_regs, hw_ctrl>>

Next ==
  \/ Probe
  \/ HwWrite
  \/ HwPoll
  \/ HwReturn
  \/ \E id \in OpIds : Recompute(id)
  \/ \E id \in OpIds, rate \in Rates : Propose(id, rate)
  \/ \E id \in OpIds, rate \in CommitRates : Commit(id, rate)

Spec == Init /\ [][Next]_vars

(* --------------------- the duty encoder on its own --------------------- *)
InitEnc ==
  /\ dt = BaseDT
  /\ pc = "encoder"
  /\ input = ZeroInput
  /\ output = [i \in ChanIds |-> ZeroOutput]
  /\ output_stack = ZeroOutput
  /\ man_regs = ZeroRegs
  /\ man_regs_stack = ZeroRegs
  /\ hw_regs = ZeroRegs
  /\ hw_ctrl = 0
  /\ hw = HwIdle
  /\ nops = 0
  /\ last = NoCall
  /\ enc \in [divide : MMCM_CLKOUT_DIVIDE_MIN .. MMCM_CLKOUT_DIVIDE_MAX,
               duty : EncDuties, word : {-1}]

EncodeDuty ==
  /\ pc = "encoder"
  /\ enc.word = -1
  /\ enc' = [enc EXCEPT !.word = logiclk_pll_div(enc.divide, enc.duty)]
  /\ UNCHANGED <<dt, pc, data_vars, hw_regs, hw_ctrl, hw, nops, last>>

NextEnc == EncodeDuty

SpecEnc == InitEnc /\ [][NextEnc]_vars

(* ======================================================================= *)
(*                               properties                                *)
(* ======================================================================= *)
(* a step that is one call of recalc_rate, round_rate or set_rate (for     *)
(* set_rate, up to its call of logiclk_hw_config)                          *)
CallStep == nops' = nops + 1

RateCallStep == CallStep /\ last'.op \in {"round_rate", "set_rate"}

VcoOf(in) == div_u64_mul(in.clk_freq, in.clkfbout_mult, in.divclk_divide)

(* d is the first divider in 1..128 that attains the least                 *)
(* |floor(vco / d) - target|                                               *)
FirstBestDivider(vco, target, d) ==
  /\ d \in MMCM_CLKOUT_DIVIDE_MIN .. MMCM_CLKOUT_DIVIDE_MAX
  /\ \A e \in MMCM_CLKOUT_DIVIDE_MIN .. MMCM_CLKOUT_DIVIDE_MAX :
       /\ abs64((vco \div d) - target) <= abs64((vco \div e) - target)
       /\ e < d => abs64((vco \div d) - target) < abs64((vco \div e) - target)

(* registers 1+2i and 2+2i hold the count word of channel i's divider,     *)
(* duty and phase                                                          *)
PairMatches(regs, out, i) ==
  /\ regs[1 + 2 * i] = logiclk_pll_count(out.clkout_divide, out.clkout_duty,
                                         out.clkout_phase) % 65536
  /\ regs[2 + 2 * i] = logiclk_pll_count(out.clkout_divide, out.clkout_duty,
                                         out.clkout_phase) \div 65536

SharedRegs == {0} \cup (13 .. 20)

(* registers 0 and 13..20 are those packed from the input stage in and the *)
(* duty and phase of out                                                   *)
SharedMatches(regs, in, out) ==
  \A k \in SharedRegs : regs[k] = logiclk_man_reg_params(in, out, ZeroRegs)[k]

(* C1: when round_rate or set_rate fails in the parameter calculation, the *)
(* input stage, the six outputs and the 21 register words are, on return,  *)
(* what they were before the call.                                         *)
C1_FailedCalcRestores ==
  [][(RateCallStep /\ last'.calc = "failed")
       => (input' = input /\ output' = output /\ man_regs' = man_regs)]_vars

(* a set_rate call has failed in the parameter calculation on a device     *)
(* whose register image was already populated                              *)
C1_Witness ==
  /\ last.op = "set_rate" /\ last.calc = "failed" /\ last.ret = 0 - EINVAL
  /\ man_regs[0] = 65535
  /\ pc = "idle"

(* C2 as stated: a round_rate or set_rate on the precise output whose      *)
(* calculation succeeds rewrites registers 13..20 and all six register     *)
(* pairs and leaves the divider of every non-precise output unchanged.     *)
C2_DividersUnchanged ==
  [][(RateCallStep /\ last'.calc = "ok" /\ output[last'.id].precise)
       => /\ SharedMatches(man_regs', input', output'[last'.id])
          /\ \A i \in ChanIds : PairMatches(man_regs', output'[i], i)
          /\ \A i \in ChanIds :
               ~output[i].precise =>
                 output'[i].clkout_divide = output[i].clkout_divide]_vars

(* C2 amended: such a call rewrites registers 13..20 and all six register  *)
(* pairs, and gives every output, the non-precise ones included, the first *)
(* divider in 1..128 nearest its target under the new VCO frequency (the   *)
(* target is the requested rate for the precise output and the recorded    *)
(* frequency, 0 when unset, for the others); duty and phase are unchanged. *)
C2_DividersSearchedAgain ==
  [][(RateCallStep /\ last'.calc = "ok" /\ output[last'.id].precise)
       => /\ SharedMatches(man_regs', input', output'[last'.id])
          /\ \A i \in ChanIds : PairMatches(man_regs', output'[i], i)
          /\ \A i \in ChanIds :
               /\ FirstBestDivider(VcoOf(input'),
                    IF i = last'.id THEN last'.rate ELSE output[i].clkout_freq,
                    output'[i].clkout_divide)
               /\ output'[i].clkout_duty = output[i].clkout_duty
               /\ output'[i].clkout_phase = output[i].clkout_phase]_vars

(* a round_rate on the precise output has succeeded and has moved the      *)
(* divider of a non-precise output                                         *)
C2_Witness ==
  /\ last.op = "round_rate" /\ last.calc = "ok" /\ output[last.id].precise
  /\ nops = 1
  /\ \E i \in ChanIds : ~output[i].precise /\
                        output[i].clkout_divide # dt.out[i].divide

(* C3 as stated: recalc_rate on channel c changes no register other than   *)
(* 1+2c and 2+2c, and registers 0 and 13..20 change only in a round_rate   *)
(* or set_rate on the precise output.                                      *)
C3_RecalcOwnPairOnly ==
  [][/\ (CallStep /\ last'.op = "recalc_rate")
          => \A k \in DOMAIN man_regs :
               k \notin {1 + 2 * last'.id, 2 + 2 * last'.id}
                 => man_regs'[k] = man_regs[k]
     /\ (pc # "probe" /\ \E k \in SharedRegs : man_regs'[k] # man_regs[k])
          => (RateCallStep /\ output[last'.id].precise)]_vars

(* C3 amended: recalc_rate on channel c changes no register pair of        *)
(* another channel, but it does rewrite register 0 and registers 13..20,   *)
(* packed with c's duty and phase; a round_rate or set_rate on a           *)
(* non-precise output changes nothing but that output's pair.              *)
C3_RecalcOwnPairAndShared ==
  [][/\ (CallStep /\ last'.op = "recalc_rate")
          => /\ \A k \in DOMAIN man_regs :
                  k \notin ({1 + 2 * last'.id, 2 + 2 * last'.id} \cup SharedRegs)
                    => man_regs'[k] = man_regs[k]
             /\ SharedMatches(man_regs', input', output'[last'.id])
             /\ PairMatches(man_regs', output'[last'.id], last'.id)
     /\ (RateCallStep /\ ~output[last'.id].precise)
          => \A k \in DOMAIN man_regs :
               k \notin {1 + 2 * last'.id, 2 + 2 * last'.id}
                 => man_regs'[k] = man_regs[k]]_vars

(* a recalc_rate on a non-precise output has run on a populated image and  *)
(* left registers 13..20 packed with that output's duty and phase, which   *)
(* differ from the precise output's                                        *)
C3_Witness ==
  /\ last.op = "recalc_rate" /\ ~output[last.id].precise
  /\ pc = "idle"
  /\ SharedMatches(man_regs, input, output[last.id])
  /\ ~SharedMatches(man_regs, input, output[prec_id(output)])

(* the device has been loaded and registered *)
Loaded == pc \in {"idle", "hw_write", "hw_poll", "hw_ret"}

(* C4 as stated: on a loaded device every output divider is in 1..128, the *)
(* feedback multiplier in 2..64 and the pre-divider in 1..56.              *)
C4_ParametersInRange ==
  Loaded =>
    /\ \A i \in ChanIds :
         output[i].clkout_divide \in
           MMCM_CLKOUT_DIVIDE_MIN .. MMCM_CLKOUT_DIVIDE_MAX
    /\ input.clkfbout_mult \in
         MMCM_FBOUT_MULTIPLY_MIN .. MMCM_FBOUT_MULTIPLY_MAX
    /\ input.divclk_divide \in MMCM_DIVCLK_DIVIDE_MIN .. MMCM_DIVCLK_DIVIDE_MAX

(* some parameter of the device tree is outside the bounds of the load     *)
OutOfBounds(tree) ==
  \/ tree.outputs # LOGICLK_OUTPUTS
  \/ tree.input_frequency \notin MMCM_INPUT_FREQ_MIN .. MMCM_INPUT_FREQ_MAX
  \/ tree.input_divide \notin MMCM_DIVCLK_DIVIDE_MIN .. MMCM_DIVCLK_DIVIDE_MAX
  \/ tree.input_multiply \notin
       MMCM_FBOUT_MULTIPLY_MIN .. MMCM_FBOUT_MULTIPLY_MAX
  \/ \E i \in ChanIds :
       \/ tree.out[i].divide \notin
            MMCM_CLKOUT_DIVIDE_MIN .. MMCM_CLKOUT_DIVIDE_MAX
       \/ tree.out[i].duty \notin MMCM_CLKOUT_DUTY_MIN .. MMCM_CLKOUT_DUTY_MAX
       \/ tree.out[i].phase \notin MMCM_PHASE_MIN .. MMCM_PHASE_MAX

(* C5 as stated: a device tree with any parameter out of bounds (reference *)
(* frequency, pre-divider, multiplier, a channel's divider, duty or phase, *)
(* or a channel count other than six) is rejected by the load.             *)
C5_OutOfBoundsRejected ==
  (pc # "probe" /\ OutOfBounds(dt)) => pc = "aborted"

(* C6 as stated: the loop-filter and lock-window words in registers 16..20 *)
(* are those of the table entries at index feedback_multiplier - 1.        *)
C6_LutIndexMultMinusOne ==
  (Loaded /\ man_regs[0] = 65535) =>
    \A k \in 16 .. 20 :
      man_regs[k] =
        man_reg_params_store(ZeroRegs, 0, 0,
          lut_at(IF input.bw_high THEN lut_high ELSE lut_low,
                 input.clkfbout_mult - 1),
          lut_at(lut_lock, input.clkfbout_mult - 1))[k]

(* C7 as stated: hw_config writes all 21 register words before it polls,   *)
(* reads the lock status at most 50 times, writes the control word only    *)
(* after a read that saw the lock bit set, and on timeout returns the I/O  *)
(* failure without writing the control word.                               *)
C7_AtMostFiftyReads ==
  /\ (pc \in {"hw_poll", "hw_ret"}) =>
       /\ hw.i = LOGICLK_MANUAL_REGS
       /\ \A k \in DOMAIN man_regs : hw_regs[k] = man_regs[k]
  /\ hw.reads > 0 => pc \in {"hw_poll", "hw_ret"}
  /\ hw.reads <= PLL_LOCK_TIME_INTERVALS
  /\ hw.cfg_written => (hw.val = LOGICLK_PLL_LOCK /\ hw.ret = 0)
  /\ (pc = "hw_ret" /\ ~hw.cfg_written) => hw.ret = 0 - EIO
  /\ hw.ret = 0 - EIO => ~hw.cfg_written

(* C7 amended: hw_config writes all 21 register words before it polls,     *)
(* reads the lock status at most 51 times (the counter starts at 50 and is *)
(* tested after the read, before it is decremented), writes the control    *)
(* word only after a read that saw the lock bit set, and on timeout        *)
(* returns the I/O failure without writing the control word.               *)
C7_AtMostFiftyOneReads ==
  /\ (pc \in {"hw_poll", "hw_ret"}) =>
       /\ hw.i = LOGICLK_MANUAL_REGS
       /\ \A k \in DOMAIN man_regs : hw_regs[k] = man_regs[k]
  /\ hw.reads > 0 => pc \in {"hw_poll", "hw_ret"}
  /\ hw.reads <= PLL_LOCK_TIME_INTERVALS + 1
  /\ hw.cfg_written => (hw.val = LOGICLK_PLL_LOCK /\ hw.ret = 0)
  /\ (pc = "hw_ret" /\ ~hw.cfg_written) => hw.ret = 0 - EIO
  /\ hw.ret = 0 - EIO => ~hw.cfg_written

(* hw_config has timed out after its 51st read, with all 21 words written  *)
(* and the control register untouched                                      *)
C7_Witness ==
  /\ pc = "hw_ret"
  /\ hw.ret = 0 - EIO
  /\ hw.reads = PLL_LOCK_TIME_INTERVALS + 1
  /\ hw_regs[0] = 65535
  /\ hw_ctrl = 0

(* the triples <<pre_divider, multiplier, vco>> whose VCO frequency is in  *)
(* the window                                                              *)
InWindowPairs(ref) ==
  {q \in {<<p[1], p[2], div_u64_mul(ref, p[2], p[1])>> :
            p \in (MMCM_DIVCLK_DIVIDE_MIN .. MMCM_DIVCLK_DIVIDE_MAX) \X
                  (MMCM_FBOUT_MULTIPLY_MIN .. MMCM_FBOUT_MULTIPLY_MAX)} :
     q[3] >= MMCM_VCO_FREQ_MIN /\ q[3] <= MMCM_VCO_FREQ_MAX}

(* q comes before p in the order pre-divider (outer), multiplier (middle)  *)
PairBefore(q, p) == q[1] < p[1] \/ (q[1] = p[1] /\ q[2] < p[2])

(* an error err of a triple of the pair q does not beat an error least     *)
(* attained by the pair p, nor equal it from an earlier pair               *)
NotBetter(err, least, before) == err >= least /\ (before => err > least)

(* least, an error attained by p, is the least error of all triples in the *)
(* window, and no pair before p attains it                                 *)
AttainsFirstLeast(pairs, target, p, least) ==
  \A q \in pairs :
    \A od \in MMCM_CLKOUT_DIVIDE_MIN .. MMCM_CLKOUT_DIVIDE_MAX :
      NotBetter(abs64((q[3] \div od) - target), least, PairBefore(q, p))

(* those of the pairs cands that are the pair of the first triple          *)
(* attaining the least error                                               *)
FirstLeastIn(pairs, target, cands) ==
  {p \in cands \cap pairs :
     \E od \in MMCM_CLKOUT_DIVIDE_MIN .. MMCM_CLKOUT_DIVIDE_MAX :
       AttainsFirstLeast(pairs, target, p, abs64((p[3] \div od) - target))}

(* the result of the full search as a triple <<pre_divider, multiplier,    *)
(* vco>>                                                                   *)
SearchResult(ref, r) ==
  <<r.divclk_divide, r.clkfbout_mult,
    div_u64_mul(ref, r.clkfbout_mult, r.divclk_divide)>>

(* for each input of the full search, its result if that is the pair of    *)
(* the first least-error triple, and nothing otherwise                     *)
first_least_table ==
  [s \in SearchInputs |->
     FirstLeastIn(InWindowPairs(s[1]), s[2],
                  {SearchResult(s[1], mult_div_table[s])})]

(* for each input of the full search, whether some triple in the window    *)
(* gives the target exactly                                                *)
exact_match_table ==
  [s \in SearchInputs |->
     \E q \in InWindowPairs(s[1]) :
       \E od \in MMCM_CLKOUT_DIVIDE_MIN .. MMCM_CLKOUT_DIVIDE_MAX :
         q[3] \div od = s[2]]

(* the last call was a round_rate or set_rate on the precise output whose  *)
(* full search succeeded                                                   *)
SearchedOk ==
  /\ Loaded
  /\ last.op \in {"round_rate", "set_rate"}
  /\ last.calc = "ok"
  /\ output[last.id].precise

(* C8: after a successful full search the stored multiplier and            *)
(* pre-divider are those of the first triple, in the order pre-divider,    *)
(* multiplier, output divider, that attains the least                      *)
(* |floor(vco / output_divider) - target| over the triples whose VCO is in *)
(* [600 MHz, 1600 MHz]; the stored pair's VCO is in that window and an     *)
(* exact match gives the target itself.                                    *)
C8_FirstLeastErrorTriple ==
  SearchedOk =>
    /\ <<input.divclk_divide, input.clkfbout_mult, VcoOf(input)>> \in
         first_least_table[<<input.clk_freq, last.rate>>]
    /\ VcoOf(input) >= MMCM_VCO_FREQ_MIN
    /\ VcoOf(input) <= MMCM_VCO_FREQ_MAX
    /\ FirstBestDivider(VcoOf(input), last.rate, output[last.id].clkout_divide)
    /\ exact_match_table[<<input.clk_freq, last.rate>>]
         => output[last.id].clkout_freq = last.rate

(* a full search for a rate no triple attains exactly has succeeded on a   *)
(* reference for which a later pair shares the least error                 *)
C8_Witness ==
  /\ SearchedOk
  /\ last.rate = 123456789
  /\ output[last.id].clkout_freq # last.rate
  /\ \E q \in InWindowPairs(input.clk_freq) :
       /\ PairBefore(<<input.divclk_divide, input.clkfbout_mult>>, q)
       /\ \E od \in MMCM_CLKOUT_DIVIDE_MIN .. MMCM_CLKOUT_DIVIDE_MAX :
            abs64((q[3] \div od) - last.rate) =
              abs64(output[last.id].clkout_freq - last.rate)

RecalcStep == CallStep /\ last'.op = "recalc_rate"

(* the frequency recalc_rate searches a divider for: the recorded one, or, *)
(* for an unset output, the one derived from the current parameters        *)
RecalcTarget(in, out) ==
  IF out.clkout_freq # 0 THEN out.clkout_freq
                         ELSE VcoOf(in) \div out.clkout_divide

(* C9 as stated: recalc_rate on an output with a nonzero recorded          *)
(* frequency returns that frequency and leaves it unchanged; on an output  *)
(* with recorded frequency 0 it returns                                    *)
(* floor(floor(reference * multiplier / pre_divider) / output_divider).    *)
C9_ReturnsRecorded ==
  [][RecalcStep =>
       /\ output[last'.id].clkout_freq # 0 =>
            /\ last'.ret = output[last'.id].clkout_freq
            /\ output'[last'.id].clkout_freq = output[last'.id].clkout_freq
       /\ output[last'.id].clkout_freq = 0 =>
            last'.ret = VcoOf(input) \div output[last'.id].clkout_divide]_vars

(* C9 amended: recalc_rate searches the output's divider again, taking the *)
(* first divider in 1..128 nearest the recorded frequency (or, for an      *)
(* unset output, nearest floor(vco / output_divider)), and records and     *)
(* returns floor(vco / new divider); this is the recorded frequency only   *)
(* if some divider in 1..128 gives it exactly, and for an unset output it  *)
(* is floor(vco / output_divider) if the output divider is in 1..128.      *)
C9_ReturnsAchieved ==
  [][RecalcStep =>
       /\ FirstBestDivider(VcoOf(input),
                           RecalcTarget(input, output[last'.id]),
                           output'[last'.id].clkout_divide)
       /\ output'[last'.id].clkout_freq =
            VcoOf(input) \div output'[last'.id].clkout_divide
       /\ last'.ret = output'[last'.id].clkout_freq
       /\ input' = input
       /\ (/\ output[last'.id].clkout_freq # 0
           /\ \E d \in MMCM_CLKOUT_DIVIDE_MIN .. MMCM_CLKOUT_DIVIDE_MAX :
                VcoOf(input) \div d = output[last'.id].clkout_freq)
            => last'.ret = output[last'.id].clkout_freq
       /\ (/\ output[last'.id].clkout_freq = 0
           /\ output[last'.id].clkout_divide \in
                MMCM_CLKOUT_DIVIDE_MIN .. MMCM_CLKOUT_DIVIDE_MAX)
            => last'.ret = VcoOf(input) \div output[last'.id].clkout_divide]_vars

(* recalc_rate has returned a frequency other than the nonzero one that    *)
(* the device tree recorded for the output                                 *)
C9_Witness ==
  /\ last.op = "recalc_rate"
  /\ nops = 1
  /\ dt.out[last.id].frequency >= MMCM_OUTPUT_FREQ_MIN
  /\ dt.out[last.id].frequency <= MMCM_OUTPUT_FREQ_MAX
  /\ ~output[last.id].precise
  /\ last.ret # dt.out[last.id].frequency
  /\ last.ret = output[last.id].clkout_freq

(* fields of the word returned by logiclk_pll_div *)
DivLow(word) == word % 64

DivHigh(word) == (word \div 64) % 64

DivNoCount(word) == (word \div 4096) % 2

DivEdge(word) == (word \div 8192) % 2

Encoded == pc = "encoder" /\ enc.word # -1

(* C10 as stated: for divide in 2..128 the word of the duty encoder has    *)
(* no_count = 0 and low field + high field = divide; for divide = 1 it has *)
(* low = 1, high = 1, no_count = 1 and edge = 0.                           *)
C10_FieldsSumToDivide ==
  Encoded =>
    /\ enc.divide >= 2 =>
         /\ DivNoCount(enc.word) = 0
         /\ DivLow(enc.word) + DivHigh(enc.word) = enc.divide
    /\ enc.divide = 1 =>
         /\ DivLow(enc.word) = 1 /\ DivHigh(enc.word) = 1
         /\ DivNoCount(enc.word) = 1 /\ DivEdge(enc.word) = 0

(* C10 amended: for divide in 2..128 the word has no_count = 0 and its     *)
(* 6-bit low and high fields hold the low and high counts modulo 64, so    *)
(* low + high equals divide modulo 64, and equals divide itself for every  *)
(* divide up to 64; for divide = 1 it has low = 1, high = 1, no_count = 1  *)
(* and edge = 0.                                                           *)
C10_FieldsSumModulo64 ==
  Encoded =>
    /\ enc.divide >= 2 =>
         /\ DivNoCount(enc.word) = 0
         /\ (DivLow(enc.word) + DivHigh(enc.word)) % 64 = enc.divide % 64
         /\ enc.divide <= 64 =>
              DivLow(enc.word) + DivHigh(enc.word) = enc.divide
    /\ enc.divide = 1 =>
         /\ DivLow(enc.word) = 1 /\ DivHigh(enc.word) = 1
         /\ DivNoCount(enc.word) = 1 /\ DivEdge(enc.word) = 0

(* the encoder has packed a divide above 64 whose fields no longer add up  *)
(* to it                                                                   *)
C10_Witness ==
  /\ Encoded
  /\ enc.divide > 64
  /\ DivNoCount(enc.word) = 0
  /\ DivLow(enc.word) + DivHigh(enc.word) = enc.divide - 64

(* set_rate has written all 21 words of the image to the hardware *)
CommitWritten ==
  /\ pc \in {"hw_poll", "hw_ret"}
  /\ hw.caller = "set_rate"

(* registers 1+2i and 2+2i are still zero, as the load left them *)
PairUntouched(regs, i) == regs[1 + 2 * i] = 0 /\ regs[2 + 2 * i] = 0

(* C11 as stated: whenever set_rate has written the image to the hardware, *)
(* after a calculation or on the equal-frequency shortcut, registers 1+2i  *)
(* and 2+2i of the written image are, for every channel i, the two halves  *)
(* of the count word of that channel's divider, duty and phase.            *)
C11_WrittenPairsMatch ==
  CommitWritten => \A i \in ChanIds : PairMatches(hw_regs, output[i], i)

(* C11 amended: in the image set_rate writes, the pair of every channel    *)
(* whose pair has been generated since the load holds the two halves of    *)
(* the count word of that channel's divider, duty and phase; the pair of a *)
(* channel never generated is still zero.                                  *)
C11_WrittenPairsMatchOrUntouched ==
  CommitWritten =>
    /\ \A k \in DOMAIN man_regs : hw_regs[k] = man_regs[k]
    /\ \A i \in ChanIds :
         PairMatches(hw_regs, output[i], i) \/ PairUntouched(hw_regs, i)
    /\ last.calc = "ok" => PairMatches(hw_regs, output[last.id], last.id)
    /\ (last.calc = "ok" /\ output[last.id].precise) =>
         \A i \in ChanIds : PairMatches(hw_regs, output[i], i)

(* set_rate has written, on the equal-frequency shortcut, an image in      *)
(* which the pair of the channel matches its count word while the pair of  *)
(* another channel was never generated                                     *)
C11_Witness ==
  /\ CommitWritten
  /\ last.op = "set_rate" /\ last.calc = "skipped"
  /\ PairMatches(hw_regs, output[last.id], last.id)
  /\ ~PairUntouched(hw_regs, last.id)
  /\ \E i \in ChanIds : PairUntouched(hw_regs, i) /\
                        ~PairMatches(hw_regs, output[i], i)

InOutputBounds(f) == f >= MMCM_OUTPUT_FREQ_MIN /\ f <= MMCM_OUTPUT_FREQ_MAX

(* C12 as stated: after a round_rate or set_rate whose calculation         *)
(* succeeded, the recorded frequency of every output is 0 or within        *)
(* [4690000, 800000000], and the frequency round_rate returns is within    *)
(* these bounds, on the precise output and on the others.                  *)
C12_RecordedWithinBounds ==
  [][(RateCallStep /\ last'.calc = "ok")
       => /\ \A i \in ChanIds :
               output'[i].clkout_freq = 0 \/ InOutputBounds(output'[i].clkout_freq)
          /\ last'.op = "round_rate" => InOutputBounds(last'.ret)]_vars

(* the rounded fixed-point product of the duty encoder *)
DutyProduct(divide, duty) ==
  logiclk_round_fraction(pll_div_duty_fix(duty) * divide, 1)

(* the clamps of the duty encoder, the high count read as far as the six   *)
(* bits of its field hold it                                               *)
ClampsApplied(divide, word, int_part) ==
  /\ int_part = divide =>
       (DivHigh(word) = (divide - 1) % 64 /\ DivEdge(word) = 1)
  /\ int_part = 0 => (DivHigh(word) = 1 /\ DivEdge(word) = 0)

(* C13 as stated: for divide in 2..128, if the integer part of the rounded *)
(* product round_fraction(floor(duty * 1024 / 100000) * divide, 1) equals  *)
(* divide the encoder gives high = divide - 1 and edge = 1, and if it is 0 *)
(* the encoder gives high = 1 and edge = 0.                                *)
C13_DutyClamps ==
  (Encoded /\ enc.divide >= 2) =>
    ClampsApplied(enc.divide, enc.word,
                  DutyProduct(enc.divide, enc.duty) \div
                    Pow2(LOGICLK_FRACTION_PRECISION))

====
